---------------------------- MODULE Spec2Model ----------------------------
(***************************************************************************)
(* Model of the Double Oak fencing estimator (src/app.py): the quantity    *)
(* helpers (required_footage, posts_needed, rolls_needed), the pricebook   *)
(* lookup, and the Dash callback compute with its nested _calc_removal.    *)
(*                                                                         *)
(* Numbers.  Python floats are modelled as exact rationals.  Lengths are   *)
(* carried in hundredths of a foot (every length the program forms is      *)
(* total_lf * (100 + waste_pct) / 100 with integer total_lf and waste_pct),*)
(* money is a rational  n/d  of dollars.  TLC integers are 32 bits wide,   *)
(* so numerators and denominators are signed integers of arbitrary width,  *)
(* kept as little-endian digit sequences in base Base.  Python None is the *)
(* empty tuple for an optional number (<<v>> is the number v) and the      *)
(* string "None" for an optional string.                                   *)
(***************************************************************************)
EXTENDS Integers, Sequences, FiniteSets, TLC

----------------------------------------------------------------------------
(* Wide naturals: a sequence of digits, least significant first, no        *)
(* leading zero digit; zero is the empty sequence.                         *)

Base == 100 * 100

RECURSIVE NatOf(_)
NatOf(i) ==
    IF i = 0 THEN <<>> ELSE <<i % Base>> \o NatOf(i \div Base)

RECURSIVE Strip(_)
Strip(a) ==
    IF a = <<>> THEN <<>>
    ELSE IF a[Len(a)] = 0 THEN Strip(SubSeq(a, 1, Len(a) - 1))
    ELSE a

RECURSIVE MagAddC(_, _, _)
MagAddC(a, b, c) ==
    IF a = <<>> /\ b = <<>> THEN (IF c = 0 THEN <<>> ELSE <<c>>)
    ELSE LET x == IF a = <<>> THEN 0 ELSE a[1]
             y == IF b = <<>> THEN 0 ELSE b[1]
             s == x + y + c
         IN  <<s % Base>> \o MagAddC(IF a = <<>> THEN <<>> ELSE Tail(a),
                                     IF b = <<>> THEN <<>> ELSE Tail(b),
                                     s \div Base)

MagAdd(a, b) == MagAddC(a, b, 0)

\* a - b for a >= b, before the leading zeros are stripped
RECURSIVE MagSubB(_, _, _)
MagSubB(a, b, c) ==
    IF a = <<>> THEN <<>>
    ELSE LET y == IF b = <<>> THEN 0 ELSE b[1]
             s == a[1] - y - c
         IN  <<IF s < 0 THEN s + Base ELSE s>>
               \o MagSubB(Tail(a), IF b = <<>> THEN <<>> ELSE Tail(b),
                          IF s < 0 THEN 1 ELSE 0)

MagSub(a, b) == Strip(MagSubB(a, b, 0))

\* -1, 0, 1 as a < b, a = b, a > b
RECURSIVE MagCmpAt(_, _, _)
MagCmpAt(a, b, i) ==
    IF i = 0 THEN 0
    ELSE IF a[i] < b[i] THEN -1
    ELSE IF a[i] > b[i] THEN 1
    ELSE MagCmpAt(a, b, i - 1)

MagCmp(a, b) ==
    IF Len(a) < Len(b) THEN -1
    ELSE IF Len(a) > Len(b) THEN 1
    ELSE MagCmpAt(a, b, Len(a))

\* a * k for one digit k
RECURSIVE MagMulDigit(_, _, _)
MagMulDigit(a, k, c) ==
    IF a = <<>> THEN (IF c = 0 THEN <<>> ELSE <<c>>)
    ELSE LET s == a[1] * k + c
         IN  <<s % Base>> \o MagMulDigit(Tail(a), k, s \div Base)

RECURSIVE MagMul(_, _)
MagMul(a, b) ==
    IF a = <<>> \/ b = <<>> THEN <<>>
    ELSE MagAdd(MagMulDigit(a, b[1], 0),
                LET r == MagMul(a, Tail(b)) IN IF r = <<>> THEN <<>> ELSE <<0>> \o r)

----------------------------------------------------------------------------
(* Wide integers: a sign and a magnitude. *)

BigOf(i) == [neg |-> i < 0, mag |-> NatOf(IF i < 0 THEN -i ELSE i)]

BigNeg(a) == [neg |-> (a.mag # <<>>) /\ ~a.neg, mag |-> a.mag]

BigAdd(a, b) ==
    IF a.neg = b.neg THEN [neg |-> a.neg, mag |-> MagAdd(a.mag, b.mag)]
    ELSE LET c == MagCmp(a.mag, b.mag)
         IN  IF c = 0 THEN [neg |-> FALSE, mag |-> <<>>]
             ELSE IF c > 0 THEN [neg |-> a.neg, mag |-> MagSub(a.mag, b.mag)]
             ELSE [neg |-> b.neg, mag |-> MagSub(b.mag, a.mag)]

BigMul(a, b) ==
    LET m == MagMul(a.mag, b.mag)
    IN  [neg |-> (m # <<>>) /\ (a.neg # b.neg), mag |-> m]

\* -1, 0, 1 as a < b, a = b, a > b
BigCmp(a, b) ==
    IF a.neg /\ ~b.neg THEN -1
    ELSE IF ~a.neg /\ b.neg THEN 1
    ELSE IF a.neg THEN MagCmp(b.mag, a.mag)
    ELSE MagCmp(a.mag, b.mag)

----------------------------------------------------------------------------
(* Rationals n/d with d > 0.  A narrow rational (w FALSE) has TLC integers *)
(* n and d and is in lowest terms; a wide one (w TRUE) has wide integers   *)
(* and is left as it was formed.  An operation works on TLC integers when  *)
(* its products fit them and on wide integers otherwise.  Compare          *)
(* rationals with REq, RLe, RLt, never with =.  The float NaN is the       *)
(* narrow 0/0: arithmetic on it gives NaN and every comparison with it is  *)
(* false.                                                                  *)

RECURSIVE GCD(_, _)
GCD(a, b) == IF b = 0 THEN a ELSE GCD(b, a % b)

Abs(i) == IF i < 0 THEN -i ELSE i

\* n/d in lowest terms, for TLC integers n and d > 0
Rat(n, d) ==
    LET g == GCD(Abs(n), d)
    IN  [w |-> FALSE, n |-> n \div g, d |-> d \div g]

RZero == Rat(0, 1)

NaN == [w |-> FALSE, n |-> 0, d |-> 0]
IsNaN(x) == ~x.w /\ x.d = 0

\* whether |a * b| <= 10^9, so that a sum of two such products is a TLC integer
Fits(a, b) == a = 0 \/ b = 0 \/ Abs(a) <= 1000000000 \div Abs(b)

Widen(x) == IF x.w THEN x ELSE [w |-> TRUE, n |-> BigOf(x.n), d |-> BigOf(x.d)]

\* the value of a magnitude of at most two digits
MagSmall(m) ==
    IF m = <<>> THEN 0 ELSE IF Len(m) = 1 THEN m[1] ELSE m[1] + Base * m[2]

Narrow(n, d) ==
    IF Len(n.mag) <= 2 /\ Len(d.mag) <= 2
    THEN Rat(IF n.neg THEN -MagSmall(n.mag) ELSE MagSmall(n.mag), MagSmall(d.mag))
    ELSE [w |-> TRUE, n |-> n, d |-> d]

RAdd(x, y) ==
    IF IsNaN(x) \/ IsNaN(y) THEN NaN
    ELSE IF ~x.w /\ ~y.w /\ Fits(x.n, y.d) /\ Fits(y.n, x.d) /\ Fits(x.d, y.d)
    THEN Rat(x.n * y.d + y.n * x.d, x.d * y.d)
    ELSE LET a == Widen(x)
             b == Widen(y)
         IN  Narrow(BigAdd(BigMul(a.n, b.d), BigMul(b.n, a.d)), BigMul(a.d, b.d))

RNeg(x) == IF x.w THEN [x EXCEPT !.n = BigNeg(x.n)] ELSE [x EXCEPT !.n = -x.n]

RSub(x, y) == RAdd(x, RNeg(y))

RMul(x, y) ==
    IF IsNaN(x) \/ IsNaN(y) THEN NaN
    ELSE IF ~x.w /\ ~y.w /\ Fits(x.n, y.n) /\ Fits(x.d, y.d)
    THEN Rat(x.n * y.n, x.d * y.d)
    ELSE LET a == Widen(x)
             b == Widen(y)
         IN  Narrow(BigMul(a.n, b.n), BigMul(a.d, b.d))

\* x / y for y > 0
RDiv(x, y) ==
    IF IsNaN(x) \/ IsNaN(y) THEN NaN
    ELSE IF ~x.w /\ ~y.w /\ Fits(x.n, y.d) /\ Fits(x.d, y.n)
    THEN Rat(x.n * y.d, x.d * y.n)
    ELSE LET a == Widen(x)
             b == Widen(y)
         IN  Narrow(BigMul(a.n, b.d), BigMul(a.d, b.n))

\* -1, 0, 1 as x < y, x = y, x > y; 2 when one of them is NaN
RCmp(x, y) ==
    IF IsNaN(x) \/ IsNaN(y) THEN 2
    ELSE IF ~x.w /\ ~y.w /\ Fits(x.n, y.d) /\ Fits(y.n, x.d)
    THEN LET l == x.n * y.d
             r == y.n * x.d
         IN  IF l < r THEN -1 ELSE IF l > r THEN 1 ELSE 0
    ELSE LET a == Widen(x)
             b == Widen(y)
         IN  BigCmp(BigMul(a.n, b.d), BigMul(b.n, a.d))

REq(x, y) == RCmp(x, y) = 0
RLe(x, y) == RCmp(x, y) <= 0
RLt(x, y) == RCmp(x, y) < 0
RIsNeg(x) == IF x.w THEN x.n.neg ELSE x.n < 0
RIsZero(x) == IF x.w THEN x.n.mag = <<>> ELSE x.n = 0 /\ x.d # 0

RMax(x, y) == IF RLt(x, y) THEN y ELSE x

\* an integer k, and a length of h hundredths of a foot, as rationals
RInt(k) == Rat(k, 1)
RFeet(h) == Rat(h, 100)

----------------------------------------------------------------------------
(* Python coercions. *)

Max(x, y) == IF x >= y THEN x ELSE y
Min(x, y) == IF x <= y THEN x ELSE y

\* ceil(n / d) for n >= 0, d > 0
CeilDiv(n, d) == (n + d - 1) \div d

\* int(): truncation toward zero of n / d, d > 0
TruncDiv(n, d) == IF n >= 0 THEN n \div d ELSE -((-n) \div d)

None == <<>>
Some(v) == <<v>>

\* x or dflt, for an optional number: None and 0 are falsy
OrElse(x, dflt) == IF x = None \/ x = Some(0) THEN dflt ELSE x[1]

\* s or "", for an optional string
OrEmpty(s) == IF s = "None" THEN "" ELSE s

----------------------------------------------------------------------------
(* Constants / SKUs (app.py 229-242). *)

FABRIC_SKU_14G == "silt-fence-14g"
FABRIC_SKU_125G == "silt-fence-12g5"
FABRIC_SKU_UNREINF == "silt-fence-unreinforced"
POST_SKU_T_POST_4FT == "t-post-4ft"
POST_SKU_TXDOT_T_POST_4FT == "tx-dot-t-post-4-ft"
POST_SKU_T_POST_6FT == "t-post-6ft"
POST_SKU_WOOD_STAKE_4FT == "wood-stake-4ft"
FABRIC_SKU_ORANGE_LIGHT == "orange-fence-light-duty"
FABRIC_SKU_ORANGE_HEAVY == "orange-fence-heavy-duty"
CAP_SKU_OSHA == "cap-osha"
CAP_SKU_PLASTIC == "cap-plastic"

SALES_TAX == Rat(825, 10000)
PROD_LF_PER_DAY == 2500
DEFAULT_ROLL_LEN == 100

----------------------------------------------------------------------------
(* Quantity helpers.  Lengths in and out are hundredths of a foot.         *)

\* a variant of required_footage that adds no waste
required_footage_no_waste(total_lf, waste_pct) ==
    Max(0, total_lf) * 100

\* total_lf in feet, waste_pct in percent
required_footage(total_lf, waste_pct) ==
    Max(0, total_lf) * (100 + Max(0, waste_pct))

\* a variant of posts_needed without the end post
posts_needed_no_end_post(required_ft, spacing_ft) ==
    LET rf == Max(0, required_ft)
        sp == Max(1, IF spacing_ft = 0 THEN 1 ELSE spacing_ft)
    IN  CeilDiv(rf, 100 * sp)

\* a variant of posts_needed that sets an end post on an empty run too
posts_needed_always_end_post(required_ft, spacing_ft) ==
    LET rf == Max(0, required_ft)
        sp == Max(1, IF spacing_ft = 0 THEN 1 ELSE spacing_ft)
    IN  CeilDiv(rf, 100 * sp) + 1

posts_needed(required_ft, spacing_ft) ==
    LET rf == Max(0, required_ft)
        sp == Max(1, IF spacing_ft = 0 THEN 1 ELSE spacing_ft)
    IN  CeilDiv(rf, 100 * sp) + (IF rf > 0 THEN 1 ELSE 0)

rolls_needed(required_ft, roll_len) ==
    LET rf == Max(0, required_ft)
        rl == Max(1, IF roll_len = 0 THEN DEFAULT_ROLL_LEN ELSE roll_len)
    IN  IF rf > 0 THEN CeilDiv(rf, 100 * rl) ELSE 0

get_labor_per_day == Rat(55434, 100)

\* a variant of fuel_cost that bills the day after the last one too
fuel_cost_extra_day(days, any_work) ==
    IF any_work THEN RInt(65 * (Max(0, days) + 1)) ELSE RZero

fuel_cost(days, any_work) ==
    IF any_work THEN RInt(65 * Max(0, days)) ELSE RZero

\* required_ft in hundredths of a foot; the prices and tax_rate are rationals
materials_breakdown(required_ft, cost_per_lf, posts_count, post_unit_cost, tax_rate) ==
    LET fabric_cost == RMul(RFeet(Max(0, required_ft)), RMax(RZero, cost_per_lf))
        hardware_cost == RMul(RInt(Max(0, posts_count)), RMax(RZero, post_unit_cost))
        subtotal == RAdd(fabric_cost, hardware_cost)
        tax == RMul(subtotal, tax_rate)
    IN  [fabric_cost |-> fabric_cost, hardware_cost |-> hardware_cost,
         subtotal |-> subtotal, tax |-> tax]

----------------------------------------------------------------------------
(* State. *)

VARIABLES
    sheets,     \* pricebook._sheets as loaded at startup: a sequence of sheets
    pc,         \* "idle": the server waits for a callback request;
                \* "returned": compute has returned its outputs
    args,       \* the arguments of the compute call being served
    out,        \* what that call computed
    call,       \* the last direct call of a helper: its name, arguments, result
    ws          \* the worksheet of the proposal workbook being filled, if any

vars == <<sheets, pc, args, out, call, ws>>

----------------------------------------------------------------------------
(* The pricebook fallback (app.py 24-67).  A sheet is a record             *)
(*   [price_col |-> whether it has a price-like column,                    *)
(*    rows      |-> a sequence of [key |-> the row's key-column text,      *)
(*                                 val |-> the row's price cell]].         *)
(* A price cell is Some(cents), None for a cell float() cannot convert     *)
(* (text), or EmptyCell for an empty cell, which read_excel reads as NaN   *)
(* and float() converts to nan.                                            *)

EmptyCell == <<0, 0>>

RECURSIVE FirstMatch(_, _, _)
FirstMatch(rows, key, i) ==
    IF i > Len(rows) THEN 0
    ELSE IF rows[i].key = key THEN i
    ELSE FirstMatch(rows, key, i + 1)

\* the result for the sheets from index i on: the cell returned, or None when
\* the scan falls through to `return default`
RECURSIVE ScanSheets(_, _, _)
ScanSheets(shs, key, i) ==
    IF i > Len(shs) THEN None
    ELSE LET m == FirstMatch(shs[i].rows, key, 1)
         IN  IF m > 0 /\ shs[i].price_col /\ shs[i].rows[m].val # None
             THEN shs[i].rows[m].val
             ELSE ScanSheets(shs, key, i + 1)

\* default and the result are rationals (dollars)
get_price(sku, default) ==
    LET hit == ScanSheets(sheets, sku, 1)
    IN  IF hit = None THEN default
        ELSE IF hit = EmptyCell THEN NaN
        ELSE Rat(hit[1], 100)

\* get_price(sku, default) or default
price_or_default(sku, default) ==
    LET p == get_price(sku, default)
    IN  IF RIsZero(p) THEN default ELSE p

----------------------------------------------------------------------------
(* compute._calc_removal (app.py 626-642).  req_ft in hundredths of a foot,*)
(* sell_per_lf a rational.  base, floor and pre are kept beside the        *)
(* returned (unit, total): pre is unit before the minimum-charge branch.   *)

MIN_REMOVAL_TOTAL == 800

\* a variant of removal_floor without the taper between 2000 and 10000 ft
removal_floor_no_taper(req_ft) ==
    IF req_ft < 800 * 100 THEN Rat(115, 100)
    ELSE IF req_ft < 10000 * 100 THEN Rat(90, 100)
    ELSE Rat(80, 100)

\* a variant of removal_floor whose taper rises from 0.90 instead of falling
removal_floor_rising(req_ft) ==
    IF req_ft < 800 * 100 THEN Rat(115, 100)
    ELSE IF req_ft < 2000 * 100 THEN Rat(90, 100)
    ELSE IF req_ft < 10000 * 100
         THEN RAdd(Rat(90, 100),
                   RMul(Rat(10, 100 * 8000), RFeet(req_ft - 2000 * 100)))
    ELSE Rat(80, 100)

removal_floor(req_ft) ==
    IF req_ft < 800 * 100 THEN Rat(115, 100)
    ELSE IF req_ft < 2000 * 100 THEN Rat(90, 100)
    ELSE IF req_ft < 10000 * 100
         \* 0.90 + ((0.80 - 0.90) / (10000 - 2000)) * (req_ft - 2000)
         THEN RAdd(Rat(90, 100),
                   RMul(Rat(-10, 100 * 8000), RFeet(req_ft - 2000 * 100)))
    ELSE Rat(80, 100)

\* lines 629-637: unit = max(base, floor)
removal_unit(req_ft, sell_per_lf) ==
    RMax(RMul(sell_per_lf, Rat(40, 100)), removal_floor(req_ft))

\* lines 638-642: the minimum charge, for the unit price of line 637
minimum_charge(req_ft, unit) ==
    LET total == RMul(unit, RFeet(req_ft))
    IN  IF RLt(total, RInt(MIN_REMOVAL_TOTAL))
        THEN [unit |-> RDiv(RInt(MIN_REMOVAL_TOTAL), RFeet(req_ft)),
              total |-> RInt(MIN_REMOVAL_TOTAL), pre |-> unit, adjusted |-> TRUE]
        ELSE [unit |-> unit, total |-> total, pre |-> unit, adjusted |-> FALSE]

\* a variant of _calc_removal without the minimum charge
calc_removal_no_minimum(req_ft, sell_per_lf) ==
    IF req_ft <= 0
    THEN [unit |-> RZero, total |-> RZero, pre |-> RZero, adjusted |-> FALSE]
    ELSE [unit |-> removal_unit(req_ft, sell_per_lf),
          total |-> RMul(removal_unit(req_ft, sell_per_lf), RFeet(req_ft)),
          pre |-> removal_unit(req_ft, sell_per_lf), adjusted |-> FALSE]

calc_removal(req_ft, sell_per_lf) ==
    IF req_ft <= 0
    THEN [unit |-> RZero, total |-> RZero, pre |-> RZero, adjusted |-> FALSE]
    ELSE minimum_charge(req_ft, removal_unit(req_ft, sell_per_lf))

----------------------------------------------------------------------------
(* compute (app.py 563-732).  a is the record of the callback's arguments: *)
(*   cat, sf_gauge, sf_cap_type, orange_duty   optional strings            *)
(*   total_lf, sf_spacing, orange_spacing      optional integers           *)
(*   waste_pct                                 optional, in half percents  *)
(*                                             (the slider's step is 0.5)  *)
(*   sf_price_lf, orange_price_lf              optional, in cents          *)
(*   sf_caps, sf_removal, sf_remove_tax,                                   *)
(*   orange_removal, orange_remove_tax         checklist values (sets)     *)

\* (s or "").startswith("14"), over the gauges the model draws
starts_with_14(s) == OrEmpty(s) \in {"14 Gauge"}

\* (s or "").startswith("Light"), over the duties the model draws
starts_with_Light(s) == OrEmpty(s) \in {"Light Duty"}

\* lines 574-600: the category branch, one operator per variable it sets
post_spacing(a) ==
    IF a.cat = "Silt Fence" THEN OrElse(a.sf_spacing, 8) ELSE OrElse(a.orange_spacing, 10)

final_price_per_lf(a) ==
    IF a.cat = "Silt Fence" THEN Rat(OrElse(a.sf_price_lf, 250), 100)
    ELSE Rat(OrElse(a.orange_price_lf, 250), 100)

\* a variant of include_caps that does not look at the gauge
include_caps_any_gauge(a) ==
    IF a.cat = "Silt Fence" THEN "caps" \in a.sf_caps ELSE FALSE

include_caps(a) ==
    IF a.cat = "Silt Fence"
    THEN ("caps" \in a.sf_caps) /\ (a.sf_gauge # "Unreinforced")
    ELSE FALSE

cap_type(a) == IF a.cat = "Silt Fence" THEN a.sf_cap_type ELSE "None"

\* a variant of remove_tax_flag that reads the silt fence checklist only
remove_tax_flag_silt_only(a) == "remove_tax" \in a.sf_remove_tax

remove_tax_flag(a) ==
    IF a.cat = "Silt Fence" THEN "remove_tax" \in a.sf_remove_tax
    ELSE "remove_tax" \in a.orange_remove_tax

removal_selected(a) ==
    IF a.cat = "Silt Fence" THEN "removal" \in a.sf_removal
    ELSE "removal" \in a.orange_removal

\* fabric_sku, fabric_default
fabric(a) ==
    IF a.cat = "Silt Fence"
    THEN IF OrEmpty(a.sf_gauge) = "Unreinforced" THEN <<FABRIC_SKU_UNREINF, Rat(28, 100)>>
         ELSE IF starts_with_14(a.sf_gauge) THEN <<FABRIC_SKU_14G, Rat(32, 100)>>
         ELSE <<FABRIC_SKU_125G, Rat(38, 100)>>
    ELSE IF starts_with_Light(a.orange_duty) THEN <<FABRIC_SKU_ORANGE_LIGHT, Rat(30, 100)>>
         ELSE <<FABRIC_SKU_ORANGE_HEAVY, Rat(45, 100)>>

\* post_sku, post_default
post(a) ==
    IF a.cat = "Silt Fence"
    THEN IF OrEmpty(a.sf_gauge) = "Unreinforced" THEN <<POST_SKU_WOOD_STAKE_4FT, Rat(125, 100)>>
         ELSE IF starts_with_14(a.sf_gauge) THEN <<POST_SKU_T_POST_4FT, Rat(180, 100)>>
         ELSE <<POST_SKU_TXDOT_T_POST_4FT, Rat(215, 100)>>
    ELSE <<POST_SKU_T_POST_6FT, Rat(225, 100)>>

\* lines 607-608: the cap price looked up for a truthy cap_type
cap_price(ct) ==
    IF ct = "OSHA" THEN price_or_default(CAP_SKU_OSHA, Rat(390, 100))
    ELSE price_or_default(CAP_SKU_PLASTIC, Rat(105, 100))

\* lines 702-710
item_name(a) ==
    IF a.cat = "Silt Fence"
    THEN IF OrEmpty(a.sf_gauge) = "Unreinforced" THEN "Unreinforced Silt Fence (Wood Stakes)"
         ELSE IF starts_with_14(a.sf_gauge) THEN "14 Gauge Silt Fence"
         ELSE "12.5 Gauge Silt Fence"
    ELSE "Plastic Orange Fence"

RECURSIVE SumLineTotals(_)
SumLineTotals(lines) ==
    IF lines = <<>> THEN RZero
    ELSE RAdd(lines[1].LineTotal, SumLineTotals(Tail(lines)))

\* compute is modelled block by block: each block takes the record e of the
\* local variables assigned so far and returns it with the block's variables.

\* lines 567-600: coercions and the category branch
compute_inputs(a) ==
    [total_lf |-> OrElse(a.total_lf, 0),
     waste_pct |-> TruncDiv(OrElse(a.waste_pct, 0), 2),
     post_spacing |-> post_spacing(a), final_price_per_lf |-> final_price_per_lf(a),
     include_caps |-> include_caps(a), cap_type |-> cap_type(a),
     remove_tax_flag |-> remove_tax_flag(a), removal_selected |-> removal_selected(a)]

\* lines 602-608: prices
compute_prices(a, e) ==
    e @@ [cost_per_lf |-> price_or_default(fabric(a)[1], fabric(a)[2]),
          post_unit_cost |-> price_or_default(post(a)[1], post(a)[2]),
          caps_unit_cost |->
              IF a.cat = "Silt Fence" /\ e.include_caps /\ OrEmpty(e.cap_type) # ""
              THEN cap_price(e.cap_type) ELSE RZero]

\* lines 610-614: quantities
compute_quantities(a, e) ==
    LET req_ft == required_footage(e.total_lf, e.waste_pct)
        posts == posts_needed(req_ft, e.post_spacing)
    IN  e @@ [req_ft |-> req_ft, posts |-> posts,
              rolls |-> rolls_needed(req_ft, DEFAULT_ROLL_LEN),
              caps_qty |->
                  IF a.cat = "Silt Fence" /\ e.include_caps /\ OrEmpty(e.cap_type) # ""
                  THEN posts ELSE 0]

\* lines 615-617: material costs
compute_materials(e) ==
    LET mb == materials_breakdown(e.req_ft, e.cost_per_lf, e.posts, e.post_unit_cost,
                                  SALES_TAX)
    IN  e @@ [caps_cost |-> RMul(RInt(e.caps_qty), e.caps_unit_cost),
              fabric_cost |-> mb.fabric_cost, hardware_cost |-> mb.hardware_cost,
              mat_sub |-> mb.subtotal, tax |-> mb.tax]

\* lines 618-624: material totals, labor, fuel
compute_internal(e) ==
    LET project_days == IF e.req_ft > 0 THEN Rat(e.req_ft, 100 * PROD_LF_PER_DAY)
                        ELSE RZero
        billing_days == IF e.req_ft > 0 THEN CeilDiv(e.req_ft, 100 * PROD_LF_PER_DAY)
                        ELSE 0
    IN  e @@ [mat_sub_all |-> RAdd(e.mat_sub, e.caps_cost),
              tax_all |-> RAdd(e.tax, RMul(e.caps_cost, SALES_TAX)),
              project_days |-> project_days,
              labor_cost |-> RMul(project_days, get_labor_per_day),
              billing_days |-> billing_days,
              fuel |-> fuel_cost(billing_days, e.req_ft > 0)]

\* line 644, for the result rem of _calc_removal
removal_result(e, rem) ==
    e @@ [removal_unit_lf |-> rem.unit, removal_total |-> rem.total,
          removal_pre |-> rem.pre, removal_adjusted |-> rem.adjusted]

\* lines 626-644: removal
compute_removal(e) ==
    removal_result(e,
        IF e.removal_selected THEN calc_removal(e.req_ft, e.final_price_per_lf)
        ELSE [unit |-> RZero, total |-> RZero, pre |-> RZero, adjusted |-> FALSE])

\* lines 646-648 and 653: revenue by part, internal cost
compute_revenue(e) ==
    e @@ [sell_total_main |-> IF e.req_ft > 0
                              THEN RMul(e.final_price_per_lf, RFeet(e.req_ft))
                              ELSE RZero,
          caps_revenue |-> IF e.caps_qty > 0
                           THEN RMul(e.caps_unit_cost, RInt(e.caps_qty)) ELSE RZero,
          removal_revenue |-> IF e.removal_selected /\ e.req_ft > 0
                              THEN e.removal_total ELSE RZero,
          internal_total_cost |->
              RAdd(RAdd(RAdd(e.mat_sub_all, e.tax_all), e.labor_cost), e.fuel)]

\* lines 649-651: the Cost Summary totals
compute_customer(e) ==
    LET customer_subtotal_display ==
            RAdd(RAdd(e.sell_total_main, e.caps_revenue), e.removal_revenue)
        customer_sales_tax == IF e.remove_tax_flag THEN RZero
                              ELSE RMul(customer_subtotal_display, SALES_TAX)
    IN  e @@ [customer_subtotal_display |-> customer_subtotal_display,
              customer_sales_tax |-> customer_sales_tax,
              customer_total |-> RAdd(customer_subtotal_display, customer_sales_tax)]

\* a variant of compute_margin whose margin base includes the removal revenue
compute_margin_with_removal(e) ==
    LET subtotal_for_margin ==
            RAdd(RAdd(e.sell_total_main, e.caps_revenue), e.removal_revenue)
        gross_profit == RSub(subtotal_for_margin, e.internal_total_cost)
        profit_margin == IF RLt(RZero, subtotal_for_margin)
                         THEN RDiv(gross_profit, subtotal_for_margin) ELSE RZero
    IN  e @@ [subtotal_for_margin |-> subtotal_for_margin,
              gross_profit |-> gross_profit, profit_margin |-> profit_margin,
              badge |-> IF RLe(Rat(30, 100), profit_margin) THEN "GOOD"
                        ELSE "CHECK PROFIT"]

\* lines 654-656: margin, and the badge of lines 689-693
compute_margin(e) ==
    LET subtotal_for_margin == RAdd(e.sell_total_main, e.caps_revenue)
        gross_profit == RSub(subtotal_for_margin, e.internal_total_cost)
        profit_margin == IF RLt(RZero, subtotal_for_margin)
                         THEN RDiv(gross_profit, subtotal_for_margin) ELSE RZero
    IN  e @@ [subtotal_for_margin |-> subtotal_for_margin,
              gross_profit |-> gross_profit, profit_margin |-> profit_margin,
              badge |-> IF RLe(Rat(30, 100), profit_margin) THEN "GOOD"
                        ELSE "CHECK PROFIT"]

\* str(uuid.uuid4()) is a fresh random value at every call.  The values one run
\* of compute can draw are indexed by u: under u its k-th possible draw is
\* uuid4(u, k), and no value occurs under two indices.
UuidDraws == {0, 1}
uuid4(u, k) == 3 * u + k

Line(id, qty, item, unit, price) ==
    [_id |-> id, Qty |-> qty, Item |-> item, Unit |-> unit, PriceEach |-> price,
     LineTotal |-> RMul(price, RInt(qty))]

\* a variant of compute_lines that appends the removal line before the caps line
compute_lines_removal_first(a, e, u) ==
    e @@ [lines |->
            (IF e.total_lf > 0
             THEN <<Line(uuid4(u, 1), e.total_lf, item_name(a), "LF",
                         e.final_price_per_lf)>>
             ELSE <<>>)
            \o (IF e.removal_selected /\ e.req_ft > 0
                THEN <<Line(uuid4(u, 3), e.total_lf, "Fence Removal", "LF",
                            e.removal_unit_lf)>>
                ELSE <<>>)
            \o (IF e.caps_qty > 0
                THEN <<Line(uuid4(u, 2), e.caps_qty, "Safety Caps", "EA",
                            e.caps_unit_cost)>>
                ELSE <<>>)]

\* lines 698-718: the customer lines; customer_qty is total_lf
compute_lines(a, e, u) ==
    e @@ [lines |->
            (IF e.total_lf > 0
             THEN <<Line(uuid4(u, 1), e.total_lf, item_name(a), "LF",
                         e.final_price_per_lf)>>
             ELSE <<>>)
            \o (IF e.caps_qty > 0
                THEN <<Line(uuid4(u, 2), e.caps_qty, "Safety Caps", "EA",
                            e.caps_unit_cost)>>
                ELSE <<>>)
            \o (IF e.removal_selected /\ e.req_ft > 0
                THEN <<Line(uuid4(u, 3), e.total_lf, "Fence Removal", "LF",
                            e.removal_unit_lf)>>
                ELSE <<>>)]

\* lines 720-724, for grand_subtotal, the sum of line 721
line_totals(e, grand_subtotal) ==
    LET tax_rate == IF e.remove_tax_flag THEN RZero ELSE SALES_TAX
        sales_tax_total == RMul(grand_subtotal, tax_rate)
    IN  e @@ [grand_subtotal |-> grand_subtotal, tax_rate |-> tax_rate,
              sales_tax_total |-> sales_tax_total,
              grand_total |-> RAdd(grand_subtotal, sales_tax_total)]

\* lines 720-724: the totals shown under the preview table
compute_totals(e) == line_totals(e, SumLineTotals(e.lines))

\* a the arguments, u the index of the values uuid4 draws
compute(a, u) ==
    compute_totals(compute_lines(a,
        compute_margin(compute_customer(compute_revenue(compute_removal(
            compute_internal(compute_materials(compute_quantities(a,
                compute_prices(a, compute_inputs(a))))))))), u))

----------------------------------------------------------------------------
(* The inputs the model draws. *)

MaxSmallLf == 0
MaxHelperFeet == 3
MaxHelperWaste == 2
MaxHelperSpacing == 3

Checklist(v) == {{}, {v}}

TotalLfInputs ==
    {None, Some(-5)} \cup {Some(k) : k \in 0..MaxSmallLf}
    \cup {Some(500), Some(700), Some(800), Some(1000), Some(2000), Some(10000)}

\* half percents: -1.5 and 2.5 percent, which int() truncates to -1 and 2
WastePctInputs == {None, Some(-3), Some(5)}

GaugeInputs == {"14 Gauge", "12.5 Gauge", "Unreinforced"}
CapTypeInputs == {"OSHA", "PLASTIC", "None"}
DutyInputs == {"Light Duty", "Heavy Duty"}
SfSpacingInputs == {None, Some(3)}
OrangeSpacingInputs == {None, Some(-2)}
\* cents
SfPriceInputs == {None, Some(-100), Some(200)}
OrangePriceInputs == {None, Some(-100)}

\* the layout's initial values (app.py 341-393)
LayoutArgs ==
    [cat |-> "Silt Fence", total_lf |-> Some(1000), waste_pct |-> Some(4),
     sf_gauge |-> "14 Gauge", sf_spacing |-> Some(8), sf_price_lf |-> Some(250),
     sf_caps |-> {}, sf_cap_type |-> "OSHA", sf_removal |-> {}, sf_remove_tax |-> {},
     orange_duty |-> "Light Duty", orange_spacing |-> Some(10),
     orange_price_lf |-> Some(250), orange_removal |-> {}, orange_remove_tax |-> {}]

\* toggle_cap_type (app.py 524-526): the cap type dropdown is shown, and can be
\* changed, only with caps checked and a reinforced gauge
CapTypeChoices(gauge, caps) ==
    IF ("caps" \in caps) /\ (gauge # "Unreinforced") THEN CapTypeInputs
    ELSE {LayoutArgs.sf_cap_type}

\* The controls of the category that is not shown (toggle_category, app.py
\* 533-536) keep the values they had; the model varies the hidden remove-tax
\* checklist, and under the second category the hidden caps checklist.
SiltArgs ==
    UNION {{[LayoutArgs EXCEPT !.total_lf = t, !.waste_pct = w,
               !.sf_gauge = g, !.sf_spacing = sp, !.sf_price_lf = p, !.sf_caps = cp,
               !.sf_cap_type = ct, !.sf_removal = rm, !.sf_remove_tax = tx,
               !.orange_remove_tax = otx] :
             t \in TotalLfInputs, w \in WastePctInputs, sp \in SfSpacingInputs,
             p \in SfPriceInputs, ct \in CapTypeChoices(g, cp),
             rm \in Checklist("removal"), tx \in Checklist("remove_tax"),
             otx \in Checklist("remove_tax")} :
           g \in GaugeInputs, cp \in Checklist("caps")}

\* The dropdown offers the second category; "None" is a request with no category.
OrangeArgs ==
    {[LayoutArgs EXCEPT !.cat = c, !.total_lf = t, !.waste_pct = w,
         !.orange_duty = d, !.orange_spacing = sp, !.orange_price_lf = p,
         !.orange_removal = rm, !.orange_remove_tax = tx, !.sf_remove_tax = stx,
         !.sf_caps = cp] :
       c \in {"Plastic Orange Fence", "None"}, cp \in Checklist("caps"),
       t \in TotalLfInputs, w \in WastePctInputs, d \in DutyInputs,
       sp \in OrangeSpacingInputs, p \in OrangePriceInputs, rm \in Checklist("removal"),
       tx \in Checklist("remove_tax"), stx \in Checklist("remove_tax")}

\* no file at PRICEBOOK_PATH
NoBook == <<>>

\* one workbook: a price sheet, then a sheet with no price-like column
SampleBook ==
    << [price_col |-> TRUE,
        rows |-> << [key |-> CAP_SKU_OSHA, val |-> Some(-50)],
                    [key |-> FABRIC_SKU_14G, val |-> Some(0)],
                    [key |-> POST_SKU_T_POST_4FT, val |-> Some(200)],
                    [key |-> FABRIC_SKU_ORANGE_HEAVY, val |-> Some(-45)],
                    [key |-> CAP_SKU_PLASTIC, val |-> None],
                    [key |-> FABRIC_SKU_125G, val |-> EmptyCell] >>],
       [price_col |-> FALSE,
        rows |-> << [key |-> POST_SKU_T_POST_6FT, val |-> Some(999)] >>] >>

Books == {NoBook, SampleBook}

----------------------------------------------------------------------------
(* The state machine. *)

NoCall == [fn |-> "none"]
NoArgs == [cat |-> "None"]
NoOut == [lines |-> <<>>]
\* no workbook is open
NoWorkbook == [loaded |-> FALSE]

Init ==
    /\ sheets \in Books
    /\ pc = "idle"
    /\ args = NoArgs
    /\ out = NoOut
    /\ call = NoCall
    /\ ws = NoWorkbook

\* the callback fires with one snapshot of the inputs
Compute ==
    /\ pc = "idle"
    /\ \E a \in SiltArgs \cup OrangeArgs, u \in UuidDraws :
         /\ args' = a
         /\ out' = compute(a, u)
    /\ pc' = "returned"
    /\ UNCHANGED <<ws, sheets, call>>

\* direct calls of the module-level helpers
CallRequiredFootage ==
    /\ pc = "idle"
    /\ \E t \in -1..MaxHelperFeet, w \in -1..MaxHelperWaste :
         call' = [fn |-> "required_footage", total_lf |-> t, waste_pct |-> w,
                  ret |-> required_footage(t, w)]
    /\ pc' = "returned"
    /\ UNCHANGED <<ws, sheets, args, out>>

\* lengths in hundredths of a foot
HelperLengths == {-100, 0, 1, 100, 250, 300, 10000, 10001, 25000}

CallPostsNeeded ==
    /\ pc = "idle"
    /\ \E rf \in HelperLengths, sp \in -1..MaxHelperSpacing :
         call' = [fn |-> "posts_needed", required_ft |-> rf, spacing_ft |-> sp,
                  ret |-> posts_needed(rf, sp)]
    /\ pc' = "returned"
    /\ UNCHANGED <<ws, sheets, args, out>>

CallRollsNeeded ==
    /\ pc = "idle"
    /\ \E rf \in HelperLengths, rl \in (-1..MaxHelperSpacing) \cup {DEFAULT_ROLL_LEN} :
         call' = [fn |-> "rolls_needed", required_ft |-> rf, roll_len |-> rl,
                  ret |-> rolls_needed(rf, rl)]
    /\ pc' = "returned"
    /\ UNCHANGED <<ws, sheets, args, out>>

\* the SKUs of the program, and one no pricebook lists
SkuInputs ==
    {FABRIC_SKU_14G, FABRIC_SKU_125G, FABRIC_SKU_UNREINF, POST_SKU_T_POST_4FT,
     POST_SKU_TXDOT_T_POST_4FT, POST_SKU_T_POST_6FT, POST_SKU_WOOD_STAKE_4FT,
     FABRIC_SKU_ORANGE_LIGHT, FABRIC_SKU_ORANGE_HEAVY, CAP_SKU_OSHA, CAP_SKU_PLASTIC,
     "no-such-sku"}

\* the default is in cents
CallGetPrice ==
    /\ pc = "idle"
    /\ \E sku \in SkuInputs, dflt \in {125, 390} :
         call' = [fn |-> "get_price", sku |-> sku, default |-> Rat(dflt, 100),
                  ret |-> get_price(sku, Rat(dflt, 100))]
    /\ pc' = "returned"
    /\ UNCHANGED <<ws, sheets, args, out>>

\* the result is handed back; the server keeps nothing of the call
Return ==
    /\ pc = "returned"
    /\ pc' = "idle"
    /\ args' = NoArgs
    /\ out' = NoOut
    /\ call' = NoCall
    /\ UNCHANGED <<ws, sheets>>

Next ==
    \/ CallRequiredFootage
    \/ CallPostsNeeded
    \/ CallRollsNeeded
    \/ CallGetPrice
    \/ Compute
    \/ Return

Spec == Init /\ [][Next]_vars

----------------------------------------------------------------------------
(* Two successive requests with removal selected, seen at compute's call   *)
(* of _calc_removal (app.py 644): call holds this call's arguments and     *)
(* result, and under prev those of the call before it.                     *)

\* required footage in hundredths of a foot: around the minimum charge and
\* on both sides of the tier boundaries 800, 2000 and 10000 ft
RemovalLengths ==
    {1, 50000, 69600, 79999, 80000, 88900, 199999, 200000, 600000, 999999,
     1000000, 1200000}

\* sell price per foot in cents
RemovalPrices == {-100, 100, 250, 500}

InitRemoval ==
    /\ sheets = NoBook
    /\ pc = "idle"
    /\ args = NoArgs
    /\ out = NoOut
    /\ call = NoCall
    /\ ws = NoWorkbook

CallCalcRemoval ==
    /\ \E r \in RemovalLengths, p \in RemovalPrices :
         LET ret == calc_removal(r, Rat(p, 100))
         IN  call' = [fn |-> "_calc_removal", req_ft |-> r, sell_per_lf |-> p,
                      unit |-> ret.unit, total |-> ret.total,
                      prev |-> IF call = NoCall THEN None
                               ELSE Some([req_ft |-> call.req_ft,
                                          sell_per_lf |-> call.sell_per_lf,
                                          unit |-> call.unit, total |-> call.total])]
    /\ UNCHANGED <<ws, sheets, pc, args, out>>

NextRemoval == CallCalcRemoval

SpecRemoval == InitRemoval /\ [][NextRemoval]_vars

----------------------------------------------------------------------------
(* The same request served twice: the callback fires, and fires again with *)
(* the same inputs and the pricebook as it was.  call keeps the result of  *)
(* the first of the two calls.                                             *)

TwiceArgs ==
    {[LayoutArgs EXCEPT !.total_lf = t, !.sf_caps = cp, !.sf_removal = rm,
                        !.sf_remove_tax = tx] :
       t \in {None, Some(500), Some(1000)}, cp \in Checklist("caps"),
       rm \in Checklist("removal"), tx \in Checklist("remove_tax")}

InitTwice ==
    /\ sheets \in Books
    /\ pc = "idle"
    /\ args = NoArgs
    /\ out = NoOut
    /\ call = NoCall
    /\ ws = NoWorkbook

ComputeFirst ==
    /\ pc = "idle"
    /\ \E a \in TwiceArgs, u \in UuidDraws :
         /\ args' = a
         /\ out' = compute(a, u)
    /\ pc' = "returned"
    /\ UNCHANGED <<ws, sheets, call>>

ComputeAgain ==
    /\ pc = "returned"
    /\ \E u \in UuidDraws : out' = compute(args, u)
    /\ call' = [fn |-> "compute", first |-> out]
    /\ pc' = "again"
    /\ UNCHANGED <<ws, sheets, args>>

ReturnTwice ==
    /\ pc = "again"
    /\ pc' = "idle"
    /\ args' = NoArgs
    /\ out' = NoOut
    /\ call' = NoCall
    /\ UNCHANGED <<ws, sheets>>

NextTwice ==
    \/ ComputeFirst
    \/ ComputeAgain
    \/ ReturnTwice

SpecTwice == InitTwice /\ [][NextTwice]_vars

----------------------------------------------------------------------------
(* The proposal workbook (app.py 70-176).  A worksheet is                  *)
(*   [loaded |-> TRUE,                                                     *)
(*    cells  |-> for each column letter kept, the sequence of its cells    *)
(*               [value, number_format] by row,                            *)
(*    merged |-> the merged ranges, hidden |-> the hidden rows].           *)
(* A coordinate is <<column letter, row>>.  A cell value, and a field of a *)
(* table row, is tagged with its Python type t and kept in the field of    *)
(* that type: i an int, f a float, s a string, words the title string of   *)
(* B11 as its sequence of words.                                           *)

ITEM_START_ROW == 14
ITEM_END_ROW == 40

VNone == [t |-> "none", i |-> 0, f |-> RZero, s |-> "", words |-> <<>>]
VInt(k) == [VNone EXCEPT !.t = "int", !.i = k]
VFloat(x) == [VNone EXCEPT !.t = "float", !.f = x]
VStr(s) == [VNone EXCEPT !.t = "str", !.s = s]
VTitle(words) == [VNone EXCEPT !.t = "str", !.words = words]

\* the column letters in order
ColNo == [A |-> 1, B |-> 2, C |-> 3, D |-> 4, E |-> 5, F |-> 6, G |-> 7, H |-> 8,
          I |-> 9, J |-> 10]

ItemCols == {"C", "D", "H", "I", "J"}
ItemRows == ITEM_START_ROW..ITEM_END_ROW
capacity == ITEM_END_ROW - ITEM_START_ROW + 1
money_fmt == "$#,##0.00"

\* the cells the model keeps: columns B and the item columns, rows 1 to 44
Coords == ({"B"} \cup ItemCols) \X (1..44)

\* ws[coord]
CellAt(w, coord) == w.cells[coord[1]][coord[2]]

\* coord in rng
InRange(coord, rng) ==
    /\ ColNo[coord[1]] \in ColNo[rng.min_col]..ColNo[rng.max_col]
    /\ coord[2] \in rng.min_row..rng.max_row

\* the cell that holds a merged range's value
TopLeft(rng) == <<rng.min_col, rng.min_row>>

\* isinstance(ws[coord], MergedCell): every cell of a merged range but its top-left
IsMergedCell(w, coord) ==
    \E rng \in w.merged : InRange(coord, rng) /\ coord # TopLeft(rng)

\* _write_cell (app.py 70-79); number_format "None" leaves the format alone
write_cell(w, coord, value, number_format) ==
    LET cell == IF IsMergedCell(w, coord)
                THEN TopLeft(CHOOSE rng \in w.merged : InRange(coord, rng))
                ELSE coord
    IN  [w EXCEPT !.cells[cell[1]][cell[2]] =
            [value |-> value,
             number_format |-> IF number_format = "None" THEN @.number_format
                               ELSE number_format]]

\* lines 119-123: cell.value = None unless the cell is a merged cell
clear_cell(w, coord) ==
    IF IsMergedCell(w, coord) THEN w
    ELSE [w EXCEPT !.cells[coord[1]][coord[2]].value = VNone]

\* the steps ops[lo] .. ops[hi], in order: a step clears a cell or is a
\* _write_cell call
RECURSIVE ApplyRange(_, _, _, _)
ApplyRange(w, ops, lo, hi) ==
    IF lo > hi THEN w
    ELSE IF lo = hi
    THEN IF ops[lo].clear THEN clear_cell(w, ops[lo].coord)
         ELSE write_cell(w, ops[lo].coord, ops[lo].value, ops[lo].number_format)
    ELSE LET done == ApplyRange(w, ops, lo, (lo + hi) \div 2)
         IN  \* the test makes TLC evaluate the first half before the second
             IF done.loaded THEN ApplyRange(done, ops, (lo + hi) \div 2 + 1, hi)
             ELSE done

Apply(w, ops) == ApplyRange(w, ops, 1, Len(ops))

Write(coord, value, number_format) ==
    [clear |-> FALSE, coord |-> coord, value |-> value, number_format |-> number_format]

\* str(x).strip() is empty
IsBlank(s) == s \in {"", " ", "  "}

\* float(x or 0.0)
float_or_zero(x) ==
    IF x.t = "int" THEN RInt(x.i) ELSE x.f

\* a variant of _is_nonempty that keeps only rows with a positive quantity
is_nonempty_qty_only(row) ==
    /\ row.Item.t = "str" /\ ~IsBlank(row.Item.s)
    /\ row.Qty.t # "none" /\ RLt(RZero, float_or_zero(row.Qty))

\* _is_nonempty (app.py 104-112); the row {} is the row of five None fields
is_nonempty(row) ==
    /\ row.Item.t = "str" /\ ~IsBlank(row.Item.s)
    /\ \/ row.Qty.t # "none" /\ RLt(RZero, float_or_zero(row.Qty))
       \/ RLt(RZero, float_or_zero(row.LineTotal))

\* lines 93-96: the title written to B11
Title(project_name) ==
    IF project_name = <<>> THEN <<"Untitled", "Project">> ELSE project_name

write_title(w, project_name) ==
    LET existing == CellAt(w, <<"B", 11>>).value
        prefixed == \/ existing.words = <<>>
                    \/ existing.words[1] \in {"Project:", "PROJECT:", "project:"}
    IN  write_cell(w, <<"B", 11>>,
                   VTitle(IF prefixed THEN <<"Project:">> \o Title(project_name)
                        ELSE Title(project_name)),
                   "None")

\* the window's cells in the order of the loops of lines 117-119
ItemColSeq == <<"C", "D", "H", "I", "J">>
WindowClears ==
    [i \in 1..(capacity * Len(ItemColSeq)) |->
        [clear |-> TRUE,
         coord |-> <<ItemColSeq[((i - 1) % Len(ItemColSeq)) + 1],
                     ITEM_START_ROW + ((i - 1) \div Len(ItemColSeq))>>]]

\* lines 117-125: clear the window's cells that are not merged cells, unhide its rows
clear_window(w) ==
    [Apply(w, WindowClears) EXCEPT !.hidden = @ \ ItemRows]

\* lines 137-142: the five writes of one row
RowWrites(r, row) ==
    << Write(<<"C", r>>, row.Qty, "None"),
       Write(<<"D", r>>, row.Item, "None"),
       Write(<<"H", r>>, row.Unit, "None"),
       Write(<<"I", r>>, VFloat(float_or_zero(row.PriceEach)), money_fmt),
       Write(<<"J", r>>, VFloat(float_or_zero(row.LineTotal)), money_fmt) >>

\* lines 135-142: the writes of rows i+1 .. n of rows, for range(used)
RECURSIVE ItemWrites(_, _, _)
ItemWrites(rows, i, n) ==
    IF i >= n THEN <<>>
    ELSE RowWrites(ITEM_START_ROW + i, rows[i + 1]) \o ItemWrites(rows, i + 1, n)

\* lines 144-149
hide_rows(w, used, hide_unused_rows) ==
    IF hide_unused_rows /\ used < capacity
    THEN [w EXCEPT !.hidden = @ \cup ((ITEM_START_ROW + used)..ITEM_END_ROW)]
    ELSE w

\* line 152: the sum of the first used rows' Line Total
RECURSIVE SumRows(_, _)
SumRows(rows, n) ==
    IF n = 0 THEN RZero
    ELSE RAdd(SumRows(rows, n - 1), float_or_zero(rows[n].LineTotal))

\* a variant of export_tax_rate that reads the flag of the second category
\* whenever the category is not Silt Fence
export_tax_rate_as_compute(cat, sf_remove_tax, orange_remove_tax) ==
    IF (IF cat = "Silt Fence" THEN "remove_tax" \in sf_remove_tax
        ELSE "remove_tax" \in orange_remove_tax)
    THEN RZero ELSE SALES_TAX

\* lines 153-159: tax_rate
export_tax_rate(cat, sf_remove_tax, orange_remove_tax) ==
    IF (IF OrEmpty(cat) = "Silt Fence" THEN "remove_tax" \in sf_remove_tax
        ELSE IF OrEmpty(cat) = "Plastic Orange Fence"
        THEN "remove_tax" \in orange_remove_tax
        ELSE FALSE)
    THEN RZero ELSE SALES_TAX

\* isinstance(v, str) and v.startswith("="), for the formulas a template holds
Formulas == {"=J41*J42", "=J41+J43"}
IsFormula(x) == x.t = "str" /\ x.s \in Formulas

\* lines 163-174: J43 or J44 keeps a formula and only takes the format
write_unless_formula(w, coord, value) ==
    IF IsFormula(CellAt(w, coord).value)
    THEN [w EXCEPT !.cells[coord[1]][coord[2]].number_format = money_fmt]
    ELSE write_cell(w, coord, value, money_fmt)

\* lines 151-174: the totals J41..J44
write_totals(w, grand_subtotal, tax_rate) ==
    write_unless_formula(
        write_unless_formula(
            Apply(w, << Write(<<"J", 41>>, VFloat(grand_subtotal), money_fmt),
                        Write(<<"J", 42>>, VFloat(tax_rate), "0.00%") >>),
            <<"J", 43>>, VFloat(RMul(grand_subtotal, tax_rate))),
        <<"J", 44>>, VFloat(RAdd(grand_subtotal, RMul(grand_subtotal, tax_rate))))

\* populate_workbook (app.py 86-176): the worksheet after the call
populate_workbook(w, lines, project_name, cat, sf_remove_tax, orange_remove_tax, hide_unused_rows) ==
    LET clean_lines == SelectSeq(lines, is_nonempty)
        used == Min(Len(clean_lines), capacity)
    IN  write_totals(
            hide_rows(
                Apply(clear_window(write_title(w, project_name)),
                      ItemWrites(clean_lines, 0, used)),
                used, hide_unused_rows),
            SumRows(clean_lines, used),
            export_tax_rate(cat, sf_remove_tax, orange_remove_tax))

----------------------------------------------------------------------------
(* The export callbacks and direct calls of populate_workbook              *)
(* (SpecWorkbook).  The template is the file PROPOSAL_TEMPLATE_PATH names: *)
(* the model takes four templates, two of them with a merged range that    *)
(* covers a cell of the item columns other than as its top-left cell.      *)

BlankCell == [value |-> VNone, number_format |-> "General"]

\* a column of n empty cells
RECURSIVE BlankColumn(_)
BlankColumn(n) == IF n = 0 THEN <<>> ELSE Append(BlankColumn(n - 1), BlankCell)

BlankCells ==
    [B |-> BlankColumn(44), C |-> BlankColumn(44), D |-> BlankColumn(44),
     H |-> BlankColumn(44), I |-> BlankColumn(44), J |-> BlankColumn(44)]

Template(b11, formulas, merged) ==
    [loaded |-> TRUE,
     cells |-> [BlankCells EXCEPT
                  !["B"][11].value = b11,
                  !["J"][43].value = IF formulas THEN VStr("=J41*J42") ELSE VNone,
                  !["J"][44].value = IF formulas THEN VStr("=J41+J43") ELSE VNone],
     merged |-> merged,
     hidden |-> {}]

Range(c1, r1, c2, r2) == [min_col |-> c1, min_row |-> r1, max_col |-> c2, max_row |-> r2]

\* the item name spans D..G in the first and the last row of the window
ItemMerges == {Range("D", ITEM_START_ROW, "G", ITEM_START_ROW),
               Range("D", ITEM_END_ROW, "G", ITEM_END_ROW)}

Templates ==
    {Template(VNone, FALSE, {}),
     Template(VTitle(<<"Project:">>), TRUE, ItemMerges),
     Template(VTitle(<<"PROPOSAL">>), FALSE, ItemMerges \cup {Range("C", 20, "C", 21)}),
     Template(VNone, TRUE, ItemMerges \cup {Range("B", 15, "C", 15)})}

\* project_name, split into words
ProjectNames == {<<>>, <<"Elm", "Street">>}

\* State("preview_table", "data") (app.py 544, 760): compute's lines as table rows
TableRow(l) ==
    [Qty |-> VInt(l.Qty), Item |-> VStr(l.Item), Unit |-> VStr(l.Unit),
     PriceEach |-> VFloat(l.PriceEach), LineTotal |-> VFloat(l.LineTotal)]

TableData(lines) == [i \in DOMAIN lines |-> TableRow(lines[i])]

Row(qty, item, unit, price, total) ==
    [Qty |-> qty, Item |-> item, Unit |-> unit, PriceEach |-> price, LineTotal |-> total]

EmptyRow == Row(VNone, VNone, VNone, VNone, VNone)

\* rows with and without an item name, a quantity, a line total; the first
\* row's Line Total is not Qty * Price Each
MixedRows ==
    << Row(VInt(3), VStr("Gate"), VStr("EA"), VFloat(RInt(150)), VFloat(RInt(500))),
       EmptyRow,
       Row(VInt(0), VStr("Note"), VNone, VNone, VNone),
       Row(VInt(0), VStr("Mobilization"), VStr("LS"), VNone, VFloat(RInt(250))),
       Row(VInt(2), VStr(" "), VStr("EA"), VFloat(RInt(5)), VFloat(RInt(10))),
       Row(VNone, VStr("Delivery"), VStr("LS"), VFloat(RInt(75)), VFloat(RInt(75))),
       Row(VInt(4), VStr("Stakes"), VStr("EA"), VFloat(RInt(1)), VNone) >>

ManyRows(n) ==
    [i \in 1..n |-> Row(VInt(i), VStr("Item"), VStr("EA"), VFloat(RInt(2)),
                        VFloat(RInt(2 * i)))]

MaxRows == 29

LineLists == {<<>>, MixedRows, ManyRows(8), ManyRows(capacity), ManyRows(MaxRows)}

Categories == {"Silt Fence", "Plastic Orange Fence", "None"}

\* the requests whose lines are exported
ExportArgs ==
    {[LayoutArgs EXCEPT !.cat = c, !.sf_caps = {"caps"}, !.sf_removal = rm,
         !.orange_removal = rm, !.sf_remove_tax = stx, !.orange_remove_tax = otx] :
       c \in Categories, rm \in Checklist("removal"),
       stx \in Checklist("remove_tax"), otx \in Checklist("remove_tax")}

\* the direct calls: every line list with and without hide_unused_rows, and
\* every category with every pair of tax checklists
PopulateCalls ==
    {[lines |-> l, project_name |-> <<"Elm", "Street">>, cat |-> "Silt Fence",
      sf_remove_tax |-> {}, orange_remove_tax |-> {}, hide_unused_rows |-> h] :
       l \in LineLists, h \in BOOLEAN}
    \cup
    {[lines |-> MixedRows, project_name |-> <<>>, cat |-> c,
      sf_remove_tax |-> stx, orange_remove_tax |-> otx, hide_unused_rows |-> FALSE] :
       c \in Categories, stx \in Checklist("remove_tax"),
       otx \in Checklist("remove_tax")}

InitWorkbook ==
    /\ sheets = NoBook
    /\ pc = "idle"
    /\ args = NoArgs
    /\ out = NoOut
    /\ call = NoCall
    /\ ws = NoWorkbook

ComputeForExport ==
    /\ pc = "idle"
    /\ \E a \in ExportArgs, u \in UuidDraws :
         /\ args' = a
         /\ out' = compute(a, u)
    /\ pc' = "returned"
    /\ UNCHANGED <<ws, sheets, call>>

\* download_proposal and download_proposal_pdf hand populate_workbook a fresh
\* template, the table's rows and the category and tax checklists on screen
Export(fn, hide_unused_rows) ==
    /\ pc = "returned"
    /\ \E t \in Templates, name \in ProjectNames :
         /\ ws' = populate_workbook(t, TableData(out.lines), name, args.cat,
                                    args.sf_remove_tax, args.orange_remove_tax,
                                    hide_unused_rows)
         /\ call' = [fn |-> fn, lines |-> TableData(out.lines), project_name |-> name,
                     cat |-> args.cat, sf_remove_tax |-> args.sf_remove_tax,
                     orange_remove_tax |-> args.orange_remove_tax,
                     hide_unused_rows |-> hide_unused_rows, ret |-> Title(name)]
    /\ pc' = "exported"
    /\ UNCHANGED <<sheets, args, out>>

\* app.py 757-789
DownloadProposal == Export("download_proposal", FALSE)

\* app.py 791-826
DownloadProposalPdf == Export("download_proposal_pdf", TRUE)

\* a caller of populate_workbook loads a template
OpenTemplate ==
    /\ pc = "idle"
    /\ ws' \in Templates
    /\ pc' = "opened"
    /\ UNCHANGED <<sheets, args, out, call>>

\* a call of populate_workbook on the workbook at hand
CallPopulateWorkbook ==
    /\ pc \in {"opened", "populated"}
    /\ \E c \in PopulateCalls :
         /\ ws' = populate_workbook(ws, c.lines, c.project_name, c.cat,
                                    c.sf_remove_tax, c.orange_remove_tax,
                                    c.hide_unused_rows)
         /\ call' = [fn |-> "populate_workbook", ret |-> Title(c.project_name)] @@ c
    /\ pc' = "populated"
    /\ UNCHANGED <<sheets, args, out>>

ReturnWorkbook ==
    /\ pc \in {"exported", "populated"}
    /\ pc' = "idle"
    /\ args' = NoArgs
    /\ out' = NoOut
    /\ call' = NoCall
    /\ ws' = NoWorkbook
    /\ UNCHANGED sheets

NextWorkbook ==
    \/ OpenTemplate
    \/ CallPopulateWorkbook
    \/ ComputeForExport
    \/ DownloadProposal
    \/ DownloadProposalPdf
    \/ ReturnWorkbook

SpecWorkbook == InitWorkbook /\ [][NextWorkbook]_vars

----------------------------------------------------------------------------
(* Properties.  Computed holds in the state compute has just returned to,  *)
(* Called(f) in the state a direct call of the helper f has returned to.   *)

Computed == pc = "returned" /\ call = NoCall
Called(f) == pc = "returned" /\ call.fn = f

\* C1, as the specification states it: for totalFeet >= 0 and waste >= 0,
\* required_footage(totalFeet, waste) >= totalFeet, with equality if and only
\* if waste = 0.
C1_EqualityIffNoWaste ==
    (Called("required_footage") /\ call.total_lf >= 0 /\ call.waste_pct >= 0)
        => /\ call.ret >= 100 * call.total_lf
           /\ (call.ret = 100 * call.total_lf) <=> (call.waste_pct = 0)

\* C1, amended: for totalFeet >= 0 and waste >= 0, required_footage(totalFeet,
\* waste) >= totalFeet, with equality if and only if waste = 0 or totalFeet = 0;
\* and in compute requiredFeet >= totalRequestedFeet always.
C1_RequiredFootage ==
    /\ (Called("required_footage") /\ call.total_lf >= 0 /\ call.waste_pct >= 0)
         => /\ call.ret >= 100 * call.total_lf
            /\ (call.ret = 100 * call.total_lf)
                 <=> (call.waste_pct = 0 \/ call.total_lf = 0)
    /\ Computed => out.req_ft >= 100 * out.total_lf

\* a call with no footage and some waste: the result equals totalFeet
C1_Witness ==
    /\ Called("required_footage")
    /\ call.total_lf = 0 /\ call.waste_pct > 0 /\ call.ret = 0

\* C2: posts_needed(requiredFeet, spacing) = ceil(requiredFeet / max(1,
\* spacing)) + 1 for requiredFeet > 0, and is 0 exactly when requiredFeet <= 0;
\* in compute postCount = 0 iff requiredFeet = 0, and otherwise postCount >=
\* ceil(requiredFeet / spacing).
C2_PostsNeeded ==
    /\ Called("posts_needed")
         => /\ call.required_ft > 0
                 => call.ret = CeilDiv(call.required_ft,
                                       100 * Max(1, call.spacing_ft)) + 1
            /\ (call.ret = 0) <=> (call.required_ft <= 0)
    /\ Computed
         => /\ (out.posts = 0) <=> (out.req_ft = 0)
            /\ out.req_ft > 0
                 => out.posts = CeilDiv(out.req_ft, 100 * Max(1, out.post_spacing)) + 1
            /\ (out.req_ft > 0 /\ out.post_spacing >= 1)
                 => out.posts >= CeilDiv(out.req_ft, 100 * out.post_spacing)

\* a call with spacing 0 and a length that is not a whole number of feet
C2_Witness ==
    /\ Called("posts_needed")
    /\ call.spacing_ft = 0 /\ call.required_ft = 250 /\ call.ret = 4

\* C3, as the specification states it: rolls_needed(requiredFeet, rollLength)
\* = ceil(requiredFeet / max(1, rollLength)) for requiredFeet > 0 and 0
\* otherwise, for every rollLength, 0 and negative values included; with the
\* default rollLength a job of requiredFeet > 0 needs at least one roll.
C3_RollsNeeded ==
    /\ Called("rolls_needed")
         => call.ret = IF call.required_ft > 0
                       THEN CeilDiv(call.required_ft, 100 * Max(1, call.roll_len))
                       ELSE 0
    /\ (Computed /\ out.req_ft > 0) => out.rolls >= 1

\* C4: the cap count is 0 or the post count; it is positive only for Silt
\* Fence with a gauge other than Unreinforced and 'caps' selected; for the
\* other category or Unreinforced there is no Safety Caps line, cap cost or
\* cap revenue.
C4_CapCount ==
    Computed
      => /\ out.caps_qty \in {0, out.posts}
         /\ out.caps_qty > 0
              => /\ args.cat = "Silt Fence"
                 /\ args.sf_gauge # "Unreinforced"
                 /\ "caps" \in args.sf_caps
         /\ (args.cat # "Silt Fence" \/ args.sf_gauge = "Unreinforced")
              => /\ \A i \in DOMAIN out.lines : out.lines[i].Item # "Safety Caps"
                 /\ RIsZero(out.caps_cost)
                 /\ RIsZero(out.caps_revenue)
                 /\ out.caps_qty = 0

\* caps on every post of a reinforced silt fence
C4_Witness ==
    /\ Computed
    /\ out.caps_qty > 0 /\ out.caps_qty = out.posts
    /\ \E i \in DOMAIN out.lines :
         out.lines[i].Item = "Safety Caps" /\ out.lines[i].Qty = out.posts

\* the remove-tax checklist of the category compute works on
ActiveRemoveTax ==
    IF args.cat = "Silt Fence" THEN "remove_tax" \in args.sf_remove_tax
    ELSE "remove_tax" \in args.orange_remove_tax

NonNeg(x) == ~RIsNeg(x)

\* C6, as the specification states it: for every input, negative footage,
\* waste, sell price and pricebook prices included, every quantity, unit
\* price, cost, revenue, line total, tax and total compute produces is >= 0.
C6_NonNegative ==
    Computed
      => /\ out.req_ft >= 0 /\ out.posts >= 0 /\ out.rolls >= 0 /\ out.caps_qty >= 0
         /\ out.billing_days >= 0
         /\ \A f \in {"final_price_per_lf", "cost_per_lf", "post_unit_cost",
                      "caps_unit_cost", "removal_unit_lf"} : NonNeg(out[f])
         /\ \A f \in {"fabric_cost", "hardware_cost", "caps_cost", "mat_sub", "tax",
                      "mat_sub_all", "tax_all", "labor_cost", "fuel",
                      "internal_total_cost"} : NonNeg(out[f])
         /\ \A f \in {"sell_total_main", "caps_revenue", "removal_total",
                      "removal_revenue", "customer_subtotal_display",
                      "customer_sales_tax", "customer_total"} : NonNeg(out[f])
         /\ \A i \in DOMAIN out.lines :
              /\ out.lines[i].Qty >= 0
              /\ NonNeg(out.lines[i].PriceEach)
              /\ NonNeg(out.lines[i].LineTotal)
         /\ \A f \in {"grand_subtotal", "sales_tax_total", "grand_total"} :
              NonNeg(out[f])

\* C7, as the specification states it: mainRevenue = sellPricePerFoot *
\* totalRequestedFeet (the quoted footage, not the waste-inflated one), and
\* the customer subtotal = mainRevenue + capsRevenue + removalRevenue.
C7_MainRevenueQuoted ==
    Computed
      => /\ REq(out.sell_total_main,
                RMul(out.final_price_per_lf, RInt(Max(0, out.total_lf))))
         /\ REq(out.customer_subtotal_display,
                RAdd(RAdd(out.sell_total_main, out.caps_revenue), out.removal_revenue))

\* the tiered floor as the specification gives it, requiredFeet in hundredths
\* of a foot; between 2000 and 10000 ft the line through (2000, 0.90) and
\* (10000, 0.80)
TierFloor(req_ft) ==
    IF req_ft < 80000 THEN Rat(115, 100)
    ELSE IF req_ft < 200000 THEN Rat(90, 100)
    ELSE IF req_ft < 1000000
         THEN RDiv(RAdd(RMul(Rat(90, 100), RFeet(1000000 - req_ft)),
                        RMul(Rat(80, 100), RFeet(req_ft - 200000))),
                   RInt(8000))
    ELSE Rat(80, 100)

\* C8: with removal selected and requiredFeet > 0, the removal unit price
\* before the minimum-charge adjustment is max(0.40 * sellPricePerFoot, floor)
\* with the tiered floor; with removal not selected or requiredFeet <= 0 the
\* removal unit price and total are 0.
C8_RemovalUnitPrice ==
    Computed
      => IF removal_selected(args) /\ out.req_ft > 0
         THEN /\ REq(out.removal_pre,
                     RMax(RMul(Rat(40, 100), out.final_price_per_lf),
                          TierFloor(out.req_ft)))
              /\ ~out.removal_adjusted => REq(out.removal_unit_lf, out.removal_pre)
         ELSE RIsZero(out.removal_unit_lf) /\ RIsZero(out.removal_total)

\* removal on the taper, where the floor exceeds 0.40 * sellPricePerFoot
C8_Witness ==
    /\ Computed
    /\ removal_selected(args)
    /\ out.req_ft = 204000
    /\ REq(out.removal_pre, Rat(8995, 10000))
    /\ RLt(RMul(Rat(40, 100), out.final_price_per_lf), out.removal_pre)

\* C10: with removal selected and requiredFeet > 0 the removal total is at
\* least 800: exactly 800, with unit price 800 / requiredFeet, when max(base,
\* floor) * requiredFeet < 800, and unitPrice * requiredFeet otherwise; the
\* removal revenue in the customer subtotal is this total.
C10_MinimumCharge ==
    (Computed /\ removal_selected(args) /\ out.req_ft > 0)
      => LET r == RFeet(out.req_ft)
             pre == RMax(RMul(Rat(40, 100), out.final_price_per_lf),
                         removal_floor(out.req_ft))
         IN  /\ RLe(RInt(800), out.removal_total)
             /\ IF RLt(RMul(pre, r), RInt(800))
                THEN /\ REq(out.removal_total, RInt(800))
                     /\ REq(out.removal_unit_lf, RDiv(RInt(800), r))
                ELSE /\ REq(out.removal_total, RMul(out.removal_unit_lf, r))
                     /\ REq(out.removal_unit_lf, pre)
             /\ REq(out.removal_revenue, out.removal_total)
             /\ REq(out.customer_subtotal_display,
                    RAdd(RAdd(out.sell_total_main, out.caps_revenue),
                         out.removal_total))

\* a job of 500 ft whose removal is raised to the minimum charge
C10_Witness ==
    /\ Computed
    /\ removal_selected(args)
    /\ out.req_ft = 50000
    /\ out.removal_adjusted
    /\ REq(out.removal_total, RInt(800))
    /\ REq(out.removal_unit_lf, Rat(160, 100))

\* C9: for a fixed sellPricePerFoot the final removal unit price of
\* _calc_removal is non-increasing in requiredFeet: for 0 < r1 <= r2,
\* unit(r2) <= unit(r1), the tier boundaries 800, 2000 and 10000 included.
C9_UnitNonIncreasing ==
    (call # NoCall /\ call.prev # None)
      => LET p == call.prev[1]
         IN  (p.sell_per_lf = call.sell_per_lf /\ p.req_ft > 0 /\ call.req_ft > 0)
               => /\ p.req_ft <= call.req_ft => RLe(call.unit, p.unit)
                  /\ call.req_ft <= p.req_ft => RLe(p.unit, call.unit)

\* two calls at one price on the two sides of the 800 ft boundary, the unit
\* price of the longer job strictly lower
C9_Witness ==
    /\ call # NoCall /\ call.prev # None
    /\ call.prev[1].req_ft = 79999 /\ call.req_ft = 80000
    /\ call.prev[1].sell_per_lf = call.sell_per_lf
    /\ RLt(call.unit, call.prev[1].unit)

\* a line without its _id
Shown(l) ==
    [Qty |-> l.Qty, Item |-> l.Item, Unit |-> l.Unit, PriceEach |-> l.PriceEach,
     LineTotal |-> l.LineTotal]

\* C11, as the specification states it: two calls of compute with identical
\* inputs and an unchanged pricebook return identical results, the '_id' of
\* every line item included.
C11_Deterministic ==
    pc = "again" => out = call.first

\* what does hold of the two calls: they agree on everything but the '_id's
C11_SameButIds ==
    pc = "again"
      => /\ [out EXCEPT !.lines = <<>>] = [call.first EXCEPT !.lines = <<>>]
         /\ Len(out.lines) = Len(call.first.lines)
         /\ \A i \in DOMAIN out.lines :
              Shown(out.lines[i]) = Shown(call.first.lines[i])

\* the price cells the pricebook holds for a SKU: those of the rows with that
\* key in the sheets with a price column
BookCells(sku) ==
    UNION {{sheets[i].rows[j].val :
              j \in {k \in DOMAIN sheets[i].rows : sheets[i].rows[k].key = sku}} :
           i \in {k \in DOMAIN sheets : sheets[k].price_col}}

\* whether one of them is a number, and a number other than zero
HasPrice(sku) == \E v \in BookCells(sku) : Len(v) = 1
HasNonzeroPrice(sku) == \E v \in BookCells(sku) : Len(v) = 1 /\ v[1] # 0

\* C12, as the specification states it: get_price returns the caller's
\* default when no pricebook is loaded, no row matches the SKU or the matched
\* value cannot be converted to a number, and compute uses the static default
\* of the variant whenever the lookup yields no price, zero or None.
C12_PriceFallback ==
    /\ (Called("get_price") /\ ~HasPrice(call.sku)) => REq(call.ret, call.default)
    /\ Computed
         => /\ ~HasNonzeroPrice(fabric(args)[1])
                 => REq(out.cost_per_lf, fabric(args)[2])
            /\ ~HasNonzeroPrice(post(args)[1])
                 => REq(out.post_unit_cost, post(args)[2])
            /\ (out.caps_qty > 0 /\ out.cap_type = "OSHA"
                  /\ ~HasNonzeroPrice(CAP_SKU_OSHA))
                 => REq(out.caps_unit_cost, Rat(390, 100))
            /\ (out.caps_qty > 0 /\ out.cap_type # "OSHA"
                  /\ ~HasNonzeroPrice(CAP_SKU_PLASTIC))
                 => REq(out.caps_unit_cost, Rat(105, 100))

\* C12 without the empty cells: what does hold of the fallback
C12_FallbackButEmpty ==
    /\ (Called("get_price") /\ BookCells(call.sku) \subseteq {None})
         => REq(call.ret, call.default)
    /\ (Called("get_price") /\ EmptyCell \in BookCells(call.sku)) => IsNaN(call.ret)
    /\ Computed
         => /\ (~HasNonzeroPrice(fabric(args)[1])
                  /\ EmptyCell \notin BookCells(fabric(args)[1]))
                 => REq(out.cost_per_lf, fabric(args)[2])
            /\ (~HasNonzeroPrice(post(args)[1])
                  /\ EmptyCell \notin BookCells(post(args)[1]))
                 => REq(out.post_unit_cost, post(args)[2])

\* the arguments with the removal checklist of the active category toggled
ToggleRemoval(a) ==
    IF a.cat = "Silt Fence"
    THEN [a EXCEPT !.sf_removal = IF @ = {} THEN {"removal"} ELSE {}]
    ELSE [a EXCEPT !.orange_removal = IF @ = {} THEN {"removal"} ELSE {}]

\* C13: profitMargin = (marginBase - internalTotalCost) / marginBase with
\* marginBase = mainRevenue + capsRevenue (0 when marginBase <= 0), removal
\* revenue excluded: two inputs that differ only in whether removal is
\* selected have the same profit margin and the same GOOD/CHECK status.
C13_MarginExcludesRemoval ==
    Computed
      => LET base == RAdd(out.sell_total_main, out.caps_revenue)
             cost == RAdd(RAdd(RAdd(out.mat_sub_all, out.tax_all), out.labor_cost),
                          out.fuel)
             other == compute(ToggleRemoval(args), 0)
         IN  /\ REq(out.internal_total_cost, cost)
             /\ IF RLt(RZero, base)
                THEN REq(out.profit_margin, RDiv(RSub(base, cost), base))
                ELSE RIsZero(out.profit_margin)
             /\ out.badge = IF RLe(Rat(30, 100), out.profit_margin) THEN "GOOD"
                            ELSE "CHECK PROFIT"
             /\ REq(other.profit_margin, out.profit_margin)
             /\ other.badge = out.badge

\* a quote with removal revenue and a margin other than 0
C13_Witness ==
    /\ Computed
    /\ removal_selected(args)
    /\ RLt(RZero, out.removal_revenue)
    /\ ~RIsZero(out.profit_margin)
    /\ RIsZero(compute(ToggleRemoval(args), 0).removal_revenue)

Kind(l) ==
    IF l.Item = "Safety Caps" THEN "caps"
    ELSE IF l.Item = "Fence Removal" THEN "removal"
    ELSE "main"

\* C15: the line items come in the order main material, Safety Caps, Fence
\* Removal, each at most once: the main line (quantity totalRequestedFeet, LF,
\* price sellPricePerFoot) iff totalRequestedFeet > 0, the caps line (quantity
\* capCount, EA) iff capCount > 0, the removal line (quantity
\* totalRequestedFeet, LF, price the removal unit price) iff removal is
\* selected and requiredFeet > 0; every lineTotal = quantity * unitPrice.
C15_LineItems ==
    Computed
      => /\ [i \in DOMAIN out.lines |-> Kind(out.lines[i])]
              = (IF out.total_lf > 0 THEN <<"main">> ELSE <<>>)
                \o (IF out.caps_qty > 0 THEN <<"caps">> ELSE <<>>)
                \o (IF removal_selected(args) /\ out.req_ft > 0
                    THEN <<"removal">> ELSE <<>>)
         /\ \A i \in DOMAIN out.lines :
              LET l == out.lines[i]
              IN  /\ REq(l.LineTotal, RMul(RInt(l.Qty), l.PriceEach))
                  /\ Kind(l) = "main"
                       => /\ l.Qty = out.total_lf /\ l.Unit = "LF"
                          /\ REq(l.PriceEach, out.final_price_per_lf)
                          /\ l.Item = item_name(args)
                  /\ Kind(l) = "caps"
                       => /\ l.Qty = out.caps_qty /\ l.Unit = "EA"
                          /\ REq(l.PriceEach, out.caps_unit_cost)
                  /\ Kind(l) = "removal"
                       => /\ l.Qty = out.total_lf /\ l.Unit = "LF"
                          /\ REq(l.PriceEach, out.removal_unit_lf)

\* a quote with all three lines
C15_Witness ==
    /\ Computed
    /\ Len(out.lines) = 3
    /\ Kind(out.lines[1]) = "main" /\ Kind(out.lines[2]) = "caps"
    /\ Kind(out.lines[3]) = "removal"
    /\ out.lines[3].Qty = out.total_lf /\ out.req_ft > 100 * out.total_lf

\* the format ":,.2f" of lines 726-729 shows x as c cents (a tie goes either way)
ShownAsCents(x, c) == RLe(Rat(2 * c - 1, 200), x) /\ RLe(x, Rat(2 * c + 1, 200))

\* the scenario's request, with or without OSHA caps, under default prices
Scenario(caps) ==
    /\ Computed /\ sheets = NoBook
    /\ args.cat = "Silt Fence" /\ args.sf_gauge = "14 Gauge"
    /\ out.total_lf = 1000 /\ out.waste_pct = 2 /\ out.post_spacing = 8
    /\ REq(out.final_price_per_lf, Rat(250, 100))
    /\ out.include_caps = caps /\ (caps => out.cap_type = "OSHA")
    /\ ~out.removal_selected /\ ~out.remove_tax_flag

\* the scenario's quantities and caps revenue
ScenarioQuantities(caps) ==
    /\ out.req_ft = 100 * 1020 /\ out.posts = 129 /\ out.rolls = 11
    /\ out.caps_qty = (IF caps THEN 129 ELSE 0)
    /\ REq(out.caps_revenue, IF caps THEN Rat(50310, 100) ELSE RZero)

\* C16: for Silt Fence, 14 Gauge, 1000 ft, 2% waste, 8 ft spacing, 2.50 per
\* foot, OSHA caps, no removal, tax included and default prices: requiredFeet
\* 1020, postCount = capCount = 129, rollCount 11, mainRevenue 2500.00,
\* capsRevenue 503.10, subtotal 3003.10, salesTax 247.76 in cents, grandTotal
\* 3250.86; without caps: subtotal 2500.00, salesTax 206.25, grandTotal 2706.25.
C16_Scenario ==
    /\ Scenario(TRUE)
         => /\ ScenarioQuantities(TRUE)
            /\ REq(out.sell_total_main, RInt(2500))
            /\ REq(out.customer_subtotal_display, Rat(300310, 100))
            /\ ShownAsCents(out.customer_sales_tax, 24776)
            /\ ShownAsCents(out.customer_total, 325086)
    /\ Scenario(FALSE)
         => /\ ScenarioQuantities(FALSE)
            /\ REq(out.sell_total_main, RInt(2500))
            /\ REq(out.customer_subtotal_display, RInt(2500))
            /\ ShownAsCents(out.customer_sales_tax, 20625)
            /\ ShownAsCents(out.customer_total, 270625)

\* what holds in the scenario: the quantities, and the claim's money figures
\* as the totals under the line items (the Cost Summary bills 1020 ft: 2550.00,
\* 3053.10 with caps)
C16_ScenarioLineTotals ==
    /\ Scenario(TRUE)
         => /\ ScenarioQuantities(TRUE)
            /\ REq(out.sell_total_main, RInt(2550))
            /\ REq(out.customer_subtotal_display, Rat(305310, 100))
            /\ REq(out.grand_subtotal, Rat(300310, 100))
            /\ ShownAsCents(out.sales_tax_total, 24776)
            /\ ShownAsCents(out.grand_total, 325086)
    /\ Scenario(FALSE)
         => /\ ScenarioQuantities(FALSE)
            /\ REq(out.sell_total_main, RInt(2550))
            /\ REq(out.grand_subtotal, RInt(2500))
            /\ ShownAsCents(out.sales_tax_total, 20625)
            /\ ShownAsCents(out.grand_total, 270625)

\* both forms of the scenario are computed
C16_ScenarioWithCaps == Scenario(TRUE)
C16_ScenarioWithoutCaps == Scenario(FALSE)

\* populate_workbook has returned: from an export callback, or from a direct call
Exported == pc = "exported"
Populated == pc \in {"exported", "populated"}

\* the sum of the Line Total cells J(r) .. J(ITEM_END_ROW) of the sheet
RECURSIVE SheetLineTotals(_)
SheetLineTotals(r) ==
    IF r > ITEM_END_ROW THEN RZero
    ELSE RAdd(float_or_zero(CellAt(ws, <<"J", r>>).value), SheetLineTotals(r + 1))

\* the rate the claim gives a call: 0 iff the remove-tax flag of its category is set
ClaimedRate ==
    IF \/ call.cat = "Silt Fence" /\ "remove_tax" \in call.sf_remove_tax
       \/ call.cat = "Plastic Orange Fence" /\ "remove_tax" \in call.orange_remove_tax
    THEN RZero ELSE SALES_TAX

\* J43 or J44 holds the value, or the template's formula for it
HoldsOrFormula(coord, x) ==
    \/ IsFormula(CellAt(ws, coord).value)
    \/ CellAt(ws, coord).value.t = "float" /\ REq(CellAt(ws, coord).value.f, x)

\* J41..J44 hold subtotal, rate, subtotal * rate and subtotal + subtotal * rate
SheetTotalsAre(subtotal, rate) ==
    /\ REq(CellAt(ws, <<"J", 41>>).value.f, subtotal)
    /\ REq(CellAt(ws, <<"J", 42>>).value.f, rate)
    /\ HoldsOrFormula(<<"J", 43>>, RMul(subtotal, rate))
    /\ HoldsOrFormula(<<"J", 44>>, RAdd(subtotal, RMul(subtotal, rate)))

\* the sheet's totals are the totals compute displays
SheetTotalsAreDisplayed ==
    /\ SheetTotalsAre(out.grand_subtotal, out.tax_rate)
    /\ HoldsOrFormula(<<"J", 43>>, out.sales_tax_total)
    /\ HoldsOrFormula(<<"J", 44>>, out.grand_total)

\* C17: for any line list handed to populate_workbook, J41 is the sum of
\* 'Line Total' over exactly the rows written to the sheet (each taken as
\* given), the rate in J42 is 0 if the remove-tax flag of the given category is
\* set and 8.25% otherwise, and tax and total are subtotal * rate and subtotal
\* + tax; for the lines, category and tax flags of one compute call these
\* equal the Grand Subtotal, Tax Rate, Sales Tax and Grand Total compute
\* displays, for every category value compute accepts.
C17_ExportTotals ==
    /\ Populated => SheetTotalsAre(SheetLineTotals(ITEM_START_ROW), ClaimedRate)
    /\ Exported => SheetTotalsAreDisplayed

\* what holds: the first half for every call, the second for the two named
\* categories
C17_ExportTotalsNamedCategory ==
    /\ Populated => SheetTotalsAre(SheetLineTotals(ITEM_START_ROW), ClaimedRate)
    /\ Exported /\ args.cat \in {"Silt Fence", "Plastic Orange Fence"}
         => SheetTotalsAreDisplayed

\* a Line Total that is not Qty * Price Each is written and summed as given
C17_LineTotalAsGiven ==
    /\ pc = "populated" /\ call.lines = MixedRows
    /\ REq(CellAt(ws, <<"J", ITEM_START_ROW>>).value.f, RInt(500))
    /\ REq(CellAt(ws, <<"J", 41>>).value.f, RInt(825))

\* a line is non-empty iff it has an item name and Qty > 0 or Line Total > 0
NonEmptyLine(row) ==
    /\ row.Item.t = "str" /\ ~IsBlank(row.Item.s)
    /\ \/ row.Qty.t = "int" /\ row.Qty.i > 0
       \/ row.Qty.t = "float" /\ RLt(RZero, row.Qty.f)
       \/ row.LineTotal.t # "none" /\ RLt(RZero, float_or_zero(row.LineTotal))

\* the last call's non-empty lines, and how many of them fit the window
LastLines == SelectSeq(call.lines, NonEmptyLine)
LastUsed == Min(Len(LastLines), ITEM_END_ROW - ITEM_START_ROW + 1)

\* what the cell of column c shows of a line
Shows(row, c) ==
    CASE c = "C" -> row.Qty
      [] c = "D" -> row.Item
      [] c = "H" -> row.Unit
      [] c = "I" -> VFloat(float_or_zero(row.PriceEach))
      [] c = "J" -> VFloat(float_or_zero(row.LineTotal))

\* the non-merged cells of the window hold the last call's lines, then nothing
WindowIsLastCall ==
    \A r \in ItemRows, c \in ItemCols :
        ~IsMergedCell(ws, <<c, r>>)
          => CellAt(ws, <<c, r>>).value
               = (IF r < ITEM_START_ROW + LastUsed
                  THEN Shows(LastLines[r - ITEM_START_ROW + 1], c) ELSE VNone)

\* no cell outside the window holds anything but the title and the totals
NothingOutsideWindow ==
    \A coord \in Coords :
        \/ coord[1] \in ItemCols /\ coord[2] \in ItemRows
        \/ coord \in {<<"B", 11>>, <<"J", 41>>, <<"J", 42>>, <<"J", 43>>, <<"J", 44>>}
        \/ CellAt(ws, coord).value = VNone

\* a row is hidden iff the last call hid unused rows and the row is after the
\* last written one
HiddenIsLastCall ==
    ws.hidden = (IF call.hide_unused_rows
                 THEN (ITEM_START_ROW + LastUsed)..ITEM_END_ROW ELSE {})

\* the lines beyond capacity are not in the subtotal
OverflowExcluded ==
    REq(CellAt(ws, <<"J", 41>>).value.f, SumRows(LastLines, LastUsed))

\* C20: after any sequence of populate_workbook calls on the same workbook the
\* item window (rows 14..40, the non-merged cells of columns C, D, H, I, J)
\* depends only on the last call: its first min(n, 27) rows hold the first
\* min(n, 27) non-empty lines of that call, every remaining row is cleared, no
\* item is written outside the window (lines beyond capacity are dropped and
\* excluded from the totals), and a row is hidden iff the last call had
\* hide_unused_rows set and the row lies after the last written row.
C20_ItemWindow ==
    Populated
      => /\ WindowIsLastCall
         /\ NothingOutsideWindow
         /\ HiddenIsLastCall
         /\ OverflowExcluded

\* no cell of the window's item columns is a merged cell
NoMergedItemCell == \A r \in ItemRows, c \in ItemCols : ~IsMergedCell(ws, <<c, r>>)

\* what holds: the same on a workbook with no merged cell in the item columns
C20_ItemWindowNoMergedCell == Populated /\ NoMergedItemCell => C20_ItemWindow

\* a second call with fewer lines on a workbook whose merged range B15:C15
\* took the first call's quantity: the quantity stays in B15
C20_StaleMergedCell ==
    /\ pc = "populated" /\ LastUsed < 2
    /\ CellAt(ws, <<"B", 15>>).value # VNone

\* a call with more lines than rows, on a workbook with no merged item cell
C20_Overflow ==
    /\ pc = "populated" /\ NoMergedItemCell
    /\ Len(LastLines) > LastUsed /\ call.hide_unused_rows

\* C18: fuel is billed in whole days: projectDays = requiredFeet / 2500,
\* billingDays = ceil(projectDays), fuelCost = 65 * billingDays when
\* requiredFeet > 0 and 0 otherwise, so a job with requiredFeet > 0 is charged
\* at least 65 and a job of exactly 2500 * k feet is charged 65 * k; laborCost
\* = projectDays * 554.34 is not rounded up.
C18_FuelWholeDays ==
    Computed
      => /\ REq(RMul(out.project_days, RInt(PROD_LF_PER_DAY)), RFeet(out.req_ft))
         /\ RLe(out.project_days, RInt(out.billing_days))
         /\ out.req_ft > 0 => RLt(RInt(out.billing_days - 1), out.project_days)
         /\ out.req_ft = 0 => out.billing_days = 0
         /\ REq(out.fuel, IF out.req_ft > 0 THEN RInt(65 * out.billing_days) ELSE RZero)
         /\ out.req_ft > 0 => RLe(RInt(65), out.fuel)
         /\ \A k \in 1..10 :
              out.req_ft = 100 * PROD_LF_PER_DAY * k => REq(out.fuel, RInt(65 * k))
         /\ REq(out.labor_cost, RMul(out.project_days, Rat(55434, 100)))

\* a job of exactly four days
C18_Witness ==
    /\ Computed /\ out.req_ft = 100 * PROD_LF_PER_DAY * 4
    /\ out.billing_days = 4 /\ REq(out.fuel, RInt(260))

\* a job of a part of a day: one day of fuel, less than one day of labor
C18_PartOfADay ==
    /\ Computed /\ out.req_ft > 0 /\ out.req_ft < 100 * PROD_LF_PER_DAY
    /\ REq(out.fuel, RInt(65)) /\ RLt(out.labor_cost, Rat(55434, 100))

\* the Fence Removal line, if there is one
RemovalLines == SelectSeq(out.lines, LAMBDA l : l.Item = "Fence Removal")

\* the totals under the line items are the totals of the Cost Summary
TotalsAgree ==
    /\ REq(out.grand_subtotal, out.customer_subtotal_display)
    /\ REq(out.grand_subtotal,
           RAdd(RAdd(out.sell_total_main, out.caps_revenue), out.removal_revenue))
    /\ REq(out.sales_tax_total, out.customer_sales_tax)
    /\ REq(out.grand_total, out.customer_total)
    /\ \A i \in DOMAIN RemovalLines : REq(RemovalLines[i].LineTotal, out.removal_total)

\* C19: for every input the sum of the line items' Line Total (Grand Subtotal)
\* equals the Cost Summary subtotal sell_total_main + caps_revenue +
\* removal_revenue, so the displayed Sales Tax and Grand Total equal
\* customer_sales_tax and customer_total; the Fence Removal line's Line Total
\* equals the removal total, also under the 800 minimum charge with waste > 0.
C19_TotalsAgree == Computed => TotalsAgree

\* what holds: the two agree when no waste is added
C19_TotalsAgreeWithoutWaste == Computed /\ out.waste_pct <= 0 => TotalsAgree

\* a quote with waste and removal under the minimum charge
C19_MinimumChargeWithWaste ==
    /\ Computed /\ out.waste_pct > 0 /\ out.removal_adjusted /\ Len(RemovalLines) = 1
    /\ REq(out.removal_total, RInt(MIN_REMOVAL_TOTAL))
    /\ RLt(RemovalLines[1].LineTotal, out.removal_total)

=============================================================================
